---- MODULE Spec2Model ----
(***************************************************************************)
(* Lifecycle of the victim base class, forest/victims/victim_base.py.      *)
(* The entry points __init__, train, retrain, validate and sponge_train    *)
(* are translated statement by statement; pc holds the source line the     *)
(* running entry point is at.  The backend hooks the base class leaves     *)
(* abstract (initialize, freeze_feature_extractor, ...) act on the record  *)
(* victim and are recorded in log in call order.                           *)
(***************************************************************************)
EXTENDS Integers, Sequences, FiniteSets, TLC

\* ---- bounds of the model ----
MaxEnsemble == 2
MaxNets == 2
MaxVruns == 2
MaxSeed == 1
MaxStat == 1
MaxCalls == 2

\* ---- values ----
NoSeed == -1
Seeds == 0..MaxSeed
Scenarios == {"from-scratch", "transfer", "finetuning"}
PoisonDeltas == {"delta_a", "delta_b"}
Metrics == {"valid_acc"}
StatValues == [Metrics -> 0..MaxStat]
NetNames == {"ResNet18"}

VARIABLES args, victim, pc, call, poison_delta, log, runs, run_stats, stats, result, ncalls

vars == <<args, victim, pc, call, poison_delta, log, runs, run_stats, stats, result, ncalls>>

\* ---- results of a call ----
NoResult == [kind |-> "none"]
Returned(s) == [kind |-> "ok", stats |-> s]
Raised(e) == [kind |-> "error", err |-> e]

\* ---- victim state ----
NoVictim == [created |-> FALSE]
Fresh(s) == [seed |-> s, data |-> "untrained"]

\* _initialize_model: the dataset the model is built against, and its frozen flag
initialize_model(model_name, pretrain) ==
    [name |-> model_name, dataset |-> args.dataset, frozen |-> FALSE]

\* initialize(pretrain, seed): record the seed, build one model per net
initialize(pretrain, seed, drawn) ==
    LET s == IF seed = NoSeed THEN drawn ELSE seed
    IN [created |-> TRUE,
        model_init_seed |-> s,
        models |-> [i \in 1..Len(args.net) |-> initialize_model(args.net[i], pretrain)],
        body |-> Fresh(s),
        head |-> Fresh(s),
        frozen |-> FALSE,
        saved |-> IF victim.created THEN victim.saved ELSE <<>>]

save_feature_representation(v) == [v EXCEPT !.saved = <<v.body>>]

load_feature_representation(v) == [v EXCEPT !.body = v.saved[1]]

freeze_feature_extractor(v) == [v EXCEPT !.frozen = TRUE]

reinitialize_last_layer(v, seed, drawn) ==
    [v EXCEPT !.head = Fresh(IF seed = NoSeed THEN drawn ELSE seed)]

\* the iteration loop trains the head, and the body unless it is frozen
iterate(v, delta) ==
    [v EXCEPT !.head.data = delta,
              !.body.data = IF v.frozen THEN v.body.data ELSE delta]

\* average_dicts: key-wise arithmetic mean, kept as the exact fraction num/den
RECURSIVE SumOf(_, _)
SumOf(seq, m) == IF seq = <<>> THEN 0 ELSE seq[1][m] + SumOf(Tail(seq), m)

average_dicts(running_stats) ==
    [m \in Metrics |-> [num |-> SumOf(running_stats, m), den |-> Len(running_stats)]]

\* ---- configurations ----
NetLists == UNION {[1..n -> NetNames] : n \in 1..MaxNets}

Args == [ensemble : 1..MaxEnsemble,
         net : NetLists,
         dataset : {"CIFAR10"},
         pretrain_dataset : {"None", "CIFAR100"},
         scenario : Scenarios,
         vruns : 0..MaxVruns]

Init ==
    /\ args \in Args
    /\ victim = NoVictim
    /\ pc = "new"
    /\ call = "none"
    /\ poison_delta = "None"
    /\ log = <<>>
    /\ runs = 0
    /\ run_stats = <<>>
    /\ stats = <<>>
    /\ result = NoResult
    /\ ncalls = 0

\* ---- helpers of the translation ----
Raise(e) ==
    /\ result' = Raised(e)
    /\ pc' = "idle"

Return(s) ==
    /\ result' = Returned(s)
    /\ pc' = "idle"

Enter(name, line, delta) ==
    /\ pc = "idle"
    /\ ncalls < MaxCalls
    /\ ncalls' = ncalls + 1
    /\ call' = name
    /\ pc' = line
    /\ poison_delta' = delta
    /\ log' = <<>>
    /\ runs' = 0
    /\ run_stats' = <<>>
    /\ stats' = <<>>
    /\ result' = NoResult
    /\ UNCHANGED <<args, victim>>

\* ---- __init__ ----
\* mutant: equality of model count and ensemble size is rejected too
Construct_rejects_equal ==
    /\ pc = "new"
    /\ call' = "__init__"
    /\ IF args.ensemble <= Len(args.net)
       THEN /\ result' = Raised("ValueError: More models requested than ensemble size.")
            /\ pc' = "failed"
            /\ UNCHANGED <<victim, log>>
       ELSE LET pretrain == args.pretrain_dataset # "None"
            IN \E drawn \in Seeds :
                 /\ victim' = initialize(pretrain, NoSeed, drawn)
                 /\ log' = <<[op |-> "initialize", seed |-> NoSeed, pretrain |-> pretrain]>>
                 /\ result' = Returned(<<>>)
                 /\ pc' = "idle"
    /\ UNCHANGED <<args, poison_delta, runs, run_stats, stats, ncalls>>

Construct ==
    /\ pc = "new"
    /\ call' = "__init__"
    /\ IF args.ensemble < Len(args.net)
       THEN /\ result' = Raised("ValueError: More models requested than ensemble size.")
            /\ pc' = "failed"
            /\ UNCHANGED <<victim, log>>
       ELSE LET pretrain == args.pretrain_dataset # "None"
            IN \E drawn \in Seeds :
                 /\ victim' = initialize(pretrain, NoSeed, drawn)
                 /\ log' = <<[op |-> "initialize", seed |-> NoSeed, pretrain |-> pretrain]>>
                 /\ result' = Returned(<<>>)
                 /\ pc' = "idle"
    /\ UNCHANGED <<args, poison_delta, runs, run_stats, stats, ncalls>>

\* ---- distributed no-op defaults ----
Inputs == {"x0", "x1"}
Labels == {"y0"}
PoisonSlices == {"s0"}
BatchPositions == {"b0"}
Gradients == {"g0", "g1"}

\* mutant: inputs and labels come back in the wrong order
distributed_control_swapped(inputs, labels, poison_slices, batch_positions) ==
    LET randgen == "None"
    IN <<labels, inputs, poison_slices, batch_positions, randgen>>

distributed_control(inputs, labels, poison_slices, batch_positions) ==
    LET randgen == "None"
    IN <<inputs, labels, poison_slices, batch_positions, randgen>>

sync_gradients(input) == input

CallDistributedControl ==
    /\ pc = "idle"
    /\ \E inputs \in Inputs, labels \in Labels, poison_slices \in PoisonSlices,
          batch_positions \in BatchPositions :
         /\ log' = <<[op |-> "distributed_control",
                      argv |-> <<inputs, labels, poison_slices, batch_positions>>]>>
         /\ result' = Returned(distributed_control(inputs, labels, poison_slices,
                                                   batch_positions))
    /\ call' = "distributed_control"
    /\ poison_delta' = "None"
    /\ runs' = 0
    /\ run_stats' = <<>>
    /\ stats' = <<>>
    /\ UNCHANGED <<args, victim, pc, ncalls>>

CallSyncGradients ==
    /\ pc = "idle"
    /\ \E input \in Gradients :
         /\ log' = <<[op |-> "sync_gradients", argv |-> <<input>>]>>
         /\ result' = Returned(sync_gradients(input))
    /\ call' = "sync_gradients"
    /\ poison_delta' = "None"
    /\ runs' = 0
    /\ run_stats' = <<>>
    /\ stats' = <<>>
    /\ UNCHANGED <<args, victim, pc, ncalls>>

\* ---- calls of the experiment driver ----
CallTrain == Enter("train", "train_106", "None")

CallRetrain == \E delta \in PoisonDeltas : Enter("retrain", "retrain_126", delta)

CallValidate == \E delta \in PoisonDeltas : Enter("validate", "validate_142", delta)

CallSpongeTrain == Enter("sponge_train", "sponge_160", "None")

\* ---- log entries of the hooks ----
LoopRun(delta, phase, s) ==
    [op |-> "iterate", poison_delta |-> delta, pretraining_phase |-> phase, ok |-> TRUE, ret |-> s]

LoopFailed(delta, phase) ==
    [op |-> "iterate", poison_delta |-> delta, pretraining_phase |-> phase, ok |-> FALSE]

Hook(name) == [op |-> name]

ReHead(seed) == [op |-> "reinitialize_last_layer", seed |-> seed, keep_last_layer |-> TRUE]

\* a failure inside the iteration loop: the exception leaves the entry point,
\* the weights are as the interrupted loop left them
LoopFails(delta, phase) ==
    /\ log' = Append(log, LoopFailed(delta, phase))
    /\ victim' \in {victim, iterate(victim, delta)}
    /\ Raise("StepError")
    /\ UNCHANGED <<runs, run_stats, stats>>

\* ---- train ----
train_from_scratch_iterate ==
    /\ pc = "train_106"
    /\ args.scenario = "from-scratch"
    /\ LET phase == args.pretrain_dataset # "None"
       IN \/ \E s \in StatValues :
               /\ log' = Append(log, LoopRun("None", phase, s))
               /\ victim' = iterate(victim, "None")
               /\ stats' = s
               /\ pc' = "train_110"
               /\ UNCHANGED <<runs, run_stats, result>>
          \/ LoopFails("None", phase)
    /\ UNCHANGED <<args, call, poison_delta, ncalls>>

\* mutant: the representation is not saved after the loop
train_from_scratch_no_save ==
    /\ pc = "train_110"
    /\ Return(stats)
    /\ UNCHANGED <<args, victim, call, poison_delta, log, runs, run_stats, stats, ncalls>>

train_from_scratch_save ==
    /\ pc = "train_110"
    /\ log' = Append(log, Hook("save_feature_representation"))
    /\ victim' = save_feature_representation(victim)
    /\ Return(stats)
    /\ UNCHANGED <<args, call, poison_delta, runs, run_stats, stats, ncalls>>

train_transfer_save ==
    /\ pc = "train_106"
    /\ args.scenario # "from-scratch"
    /\ args.scenario \in {"transfer"}
    /\ log' = Append(log, Hook("save_feature_representation"))
    /\ victim' = save_feature_representation(victim)
    /\ pc' = "train_114"
    /\ UNCHANGED <<args, call, poison_delta, runs, run_stats, stats, result, ncalls>>

train_transfer_freeze ==
    /\ pc = "train_114"
    /\ log' = Append(log, Hook("freeze_feature_extractor"))
    /\ victim' = freeze_feature_extractor(victim)
    /\ pc' = "train_115"
    /\ UNCHANGED <<args, call, poison_delta, runs, run_stats, stats, result, ncalls>>

\* mutant: the head is redrawn from a fresh seed instead of the recorded one
train_transfer_reinitialize_unseeded ==
    /\ pc = "train_115"
    /\ log' = Append(log, ReHead(NoSeed))
    /\ \E drawn \in Seeds : victim' = reinitialize_last_layer(victim, NoSeed, drawn)
    /\ pc' = "train_119"
    /\ UNCHANGED <<args, call, poison_delta, runs, run_stats, stats, result, ncalls>>

train_transfer_reinitialize ==
    /\ pc = "train_115"
    /\ log' = Append(log, ReHead(victim.model_init_seed))
    /\ \E drawn \in Seeds :
         victim' = reinitialize_last_layer(victim, victim.model_init_seed, drawn)
    /\ pc' = "train_119"
    /\ UNCHANGED <<args, call, poison_delta, runs, run_stats, stats, result, ncalls>>

\* mutant: fine-tuning is flagged as pretraining like the from-scratch branch
train_transfer_iterate_pretraining ==
    /\ pc = "train_119"
    /\ LET phase == args.pretrain_dataset # "None"
       IN \/ \E s \in StatValues :
               /\ log' = Append(log, LoopRun("None", phase, s))
               /\ victim' = iterate(victim, "None")
               /\ stats' = s
               /\ Return(s)
               /\ UNCHANGED <<runs, run_stats>>
          \/ LoopFails("None", phase)
    /\ UNCHANGED <<args, call, poison_delta, ncalls>>

train_transfer_iterate ==
    /\ pc = "train_119"
    /\ \/ \E s \in StatValues :
            /\ log' = Append(log, LoopRun("None", FALSE, s))
            /\ victim' = iterate(victim, "None")
            /\ stats' = s
            /\ Return(s)
            /\ UNCHANGED <<runs, run_stats>>
       \/ LoopFails("None", FALSE)
    /\ UNCHANGED <<args, call, poison_delta, ncalls>>

train_invalid ==
    /\ pc = "train_106"
    /\ args.scenario # "from-scratch"
    /\ args.scenario \notin {"transfer"}
    /\ Raise("ValueError: Invalid train scenario.")
    /\ UNCHANGED <<args, victim, call, poison_delta, log, runs, run_stats, stats, ncalls>>

\* ---- retrain ----
\* mutant: the re-initialization draws a fresh seed, as validate does
retrain_initialize_unseeded ==
    /\ pc = "retrain_126"
    /\ IF args.scenario = "from-scratch"
       THEN /\ log' = Append(log, [op |-> "initialize", seed |-> NoSeed, pretrain |-> FALSE])
            /\ \E drawn \in Seeds : victim' = initialize(FALSE, NoSeed, drawn)
       ELSE UNCHANGED <<log, victim>>
    /\ pc' = "retrain_129"
    /\ UNCHANGED <<args, call, poison_delta, runs, run_stats, stats, result, ncalls>>

retrain_initialize ==
    /\ pc = "retrain_126"
    /\ IF args.scenario = "from-scratch"
       THEN /\ log' = Append(log, [op |-> "initialize", seed |-> victim.model_init_seed,
                                   pretrain |-> FALSE])
            /\ \E drawn \in Seeds :
                 victim' = initialize(FALSE, victim.model_init_seed, drawn)
       ELSE UNCHANGED <<log, victim>>
    /\ pc' = "retrain_129"
    /\ UNCHANGED <<args, call, poison_delta, runs, run_stats, stats, result, ncalls>>

\* mutant: every scenario that is not from-scratch is taken for transfer
retrain_load_any ==
    /\ pc = "retrain_129"
    /\ args.scenario # "from-scratch"
    /\ log' = Append(log, Hook("load_feature_representation"))
    /\ IF victim.saved = <<>>
       THEN /\ Raise("MissingRepresentationError")
            /\ UNCHANGED victim
       ELSE /\ victim' = load_feature_representation(victim)
            /\ pc' = "retrain_131"
            /\ UNCHANGED result
    /\ UNCHANGED <<args, call, poison_delta, runs, run_stats, stats, ncalls>>

retrain_load ==
    /\ pc = "retrain_129"
    /\ args.scenario = "transfer"
    /\ log' = Append(log, Hook("load_feature_representation"))
    /\ IF victim.saved = <<>>
       THEN /\ Raise("MissingRepresentationError")
            /\ UNCHANGED victim
       ELSE /\ victim' = load_feature_representation(victim)
            /\ pc' = "retrain_131"
            /\ UNCHANGED result
    /\ UNCHANGED <<args, call, poison_delta, runs, run_stats, stats, ncalls>>

retrain_freeze ==
    /\ pc = "retrain_131"
    /\ log' = Append(log, Hook("freeze_feature_extractor"))
    /\ victim' = freeze_feature_extractor(victim)
    /\ pc' = "retrain_132"
    /\ UNCHANGED <<args, call, poison_delta, runs, run_stats, stats, result, ncalls>>

retrain_reinitialize ==
    /\ pc = "retrain_132"
    /\ log' = Append(log, ReHead(victim.model_init_seed))
    /\ \E drawn \in Seeds :
         victim' = reinitialize_last_layer(victim, victim.model_init_seed, drawn)
    /\ pc' = "retrain_136"
    /\ UNCHANGED <<args, call, poison_delta, runs, run_stats, stats, result, ncalls>>

\* mutant: a scenario that is not transfer falls through to the iteration loop
retrain_invalid_falls_through ==
    /\ pc = "retrain_129"
    /\ args.scenario # "transfer"
    /\ pc' = "retrain_136"
    /\ UNCHANGED <<args, victim, call, poison_delta, log, runs, run_stats, stats, result, ncalls>>

retrain_invalid ==
    /\ pc = "retrain_129"
    /\ args.scenario # "transfer"
    /\ Raise("ValueError: Invalid retrain scenario")
    /\ UNCHANGED <<args, victim, call, poison_delta, log, runs, run_stats, stats, ncalls>>

\* mutant: the loop is run without the caller's perturbation
retrain_iterate_clean ==
    /\ pc = "retrain_136"
    /\ \/ \E s \in StatValues :
            /\ log' = Append(log, LoopRun("None", FALSE, s))
            /\ victim' = iterate(victim, "None")
            /\ stats' = s
            /\ Return(s)
            /\ UNCHANGED <<runs, run_stats>>
       \/ LoopFails("None", FALSE)
    /\ UNCHANGED <<args, call, poison_delta, ncalls>>

\* mutant: the poisoned model's representation is saved after the loop
retrain_iterate_saves ==
    /\ pc = "retrain_136"
    /\ \/ \E s \in StatValues :
            /\ log' = log \o <<LoopRun(poison_delta, FALSE, s),
                               Hook("save_feature_representation")>>
            /\ victim' = save_feature_representation(iterate(victim, poison_delta))
            /\ stats' = s
            /\ Return(s)
            /\ UNCHANGED <<runs, run_stats>>
       \/ LoopFails(poison_delta, FALSE)
    /\ UNCHANGED <<args, call, poison_delta, ncalls>>

retrain_iterate ==
    /\ pc = "retrain_136"
    /\ \/ \E s \in StatValues :
            /\ log' = Append(log, LoopRun(poison_delta, FALSE, s))
            /\ victim' = iterate(victim, poison_delta)
            /\ stats' = s
            /\ Return(s)
            /\ UNCHANGED <<runs, run_stats>>
       \/ LoopFails(poison_delta, FALSE)
    /\ UNCHANGED <<args, call, poison_delta, ncalls>>

\* ---- validate ----
\* mutant: only the first run is re-initialized, later runs train on
validate_initialize_first_only ==
    /\ pc = "validate_142"
    /\ runs < args.vruns
    /\ args.scenario = "from-scratch"
    /\ IF runs = 0
       THEN /\ log' = Append(log, [op |-> "initialize", seed |-> NoSeed, pretrain |-> FALSE])
            /\ \E drawn \in Seeds : victim' = initialize(FALSE, NoSeed, drawn)
       ELSE UNCHANGED <<log, victim>>
    /\ pc' = "validate_155"
    /\ UNCHANGED <<args, call, poison_delta, runs, run_stats, stats, result, ncalls>>

validate_initialize ==
    /\ pc = "validate_142"
    /\ runs < args.vruns
    /\ args.scenario = "from-scratch"
    /\ log' = Append(log, [op |-> "initialize", seed |-> NoSeed, pretrain |-> FALSE])
    /\ \E drawn \in Seeds : victim' = initialize(FALSE, NoSeed, drawn)
    /\ pc' = "validate_155"
    /\ UNCHANGED <<args, call, poison_delta, runs, run_stats, stats, result, ncalls>>

validate_load ==
    /\ pc = "validate_142"
    /\ runs < args.vruns
    /\ args.scenario # "from-scratch"
    /\ args.scenario = "transfer"
    /\ log' = Append(log, Hook("load_feature_representation"))
    /\ IF victim.saved = <<>>
       THEN /\ Raise("MissingRepresentationError")
            /\ UNCHANGED victim
       ELSE /\ victim' = load_feature_representation(victim)
            /\ pc' = "validate_149"
            /\ UNCHANGED result
    /\ UNCHANGED <<args, call, poison_delta, runs, run_stats, stats, ncalls>>

validate_freeze ==
    /\ pc = "validate_149"
    /\ log' = Append(log, Hook("freeze_feature_extractor"))
    /\ victim' = freeze_feature_extractor(victim)
    /\ pc' = "validate_150"
    /\ UNCHANGED <<args, call, poison_delta, runs, run_stats, stats, result, ncalls>>

validate_reinitialize ==
    /\ pc = "validate_150"
    /\ log' = Append(log, ReHead(NoSeed))
    /\ \E drawn \in Seeds : victim' = reinitialize_last_layer(victim, NoSeed, drawn)
    /\ pc' = "validate_155"
    /\ UNCHANGED <<args, call, poison_delta, runs, run_stats, stats, result, ncalls>>

\* mutant: the scenario is checked once, before the loop over the runs
validate_invalid_before_loop ==
    /\ pc = "validate_142"
    /\ runs = 0
    /\ args.scenario # "from-scratch"
    /\ args.scenario # "transfer"
    /\ Raise("ValueError: Invalid validation scenario")
    /\ UNCHANGED <<args, victim, call, poison_delta, log, runs, run_stats, stats, ncalls>>

validate_invalid ==
    /\ pc = "validate_142"
    /\ runs < args.vruns
    /\ args.scenario # "from-scratch"
    /\ args.scenario # "transfer"
    /\ Raise("ValueError: Invalid validation scenario")
    /\ UNCHANGED <<args, victim, call, poison_delta, log, runs, run_stats, stats, ncalls>>

\* mutant: each run's statistics replace the list instead of extending it
validate_iterate_overwrites ==
    /\ pc = "validate_155"
    /\ \/ \E s \in StatValues :
            /\ log' = Append(log, LoopRun(poison_delta, FALSE, s))
            /\ victim' = iterate(victim, poison_delta)
            /\ run_stats' = <<s>>
            /\ runs' = runs + 1
            /\ pc' = "validate_142"
            /\ UNCHANGED <<stats, result>>
       \/ LoopFails(poison_delta, FALSE)
    /\ UNCHANGED <<args, call, poison_delta, ncalls>>

\* mutant: a failed run is skipped and the remaining runs are averaged
validate_iterate_swallows ==
    /\ pc = "validate_155"
    /\ \/ \E s \in StatValues :
            /\ log' = Append(log, LoopRun(poison_delta, FALSE, s))
            /\ victim' = iterate(victim, poison_delta)
            /\ run_stats' = Append(run_stats, s)
            /\ runs' = runs + 1
            /\ pc' = "validate_142"
            /\ UNCHANGED <<stats, result>>
       \/ /\ log' = Append(log, LoopFailed(poison_delta, FALSE))
          /\ victim' \in {victim, iterate(victim, poison_delta)}
          /\ runs' = runs + 1
          /\ pc' = "validate_142"
          /\ UNCHANGED <<run_stats, stats, result>>
    /\ UNCHANGED <<args, call, poison_delta, ncalls>>

validate_iterate ==
    /\ pc = "validate_155"
    /\ \/ \E s \in StatValues :
            /\ log' = Append(log, LoopRun(poison_delta, FALSE, s))
            /\ victim' = iterate(victim, poison_delta)
            /\ run_stats' = Append(run_stats, s)
            /\ runs' = runs + 1
            /\ pc' = "validate_142"
            /\ UNCHANGED <<stats, result>>
       \/ LoopFails(poison_delta, FALSE)
    /\ UNCHANGED <<args, call, poison_delta, ncalls>>

validate_average ==
    /\ pc = "validate_142"
    /\ runs >= args.vruns
    /\ log' = Append(log, [op |-> "average_dicts", arg |-> run_stats])
    /\ IF run_stats = <<>>
       THEN Raise("AggregationError")
       ELSE Return(average_dicts(run_stats))
    /\ UNCHANGED <<args, victim, call, poison_delta, runs, run_stats, stats, ncalls>>

\* ---- sponge_train ----
\* mutant: the loop is run as clean training, without the sponge sentinel
sponge_train_iterate_clean ==
    /\ pc = "sponge_160"
    /\ \/ \E s \in StatValues :
            /\ log' = Append(log, LoopRun("None", FALSE, s))
            /\ victim' = iterate(victim, "None")
            /\ stats' = s
            /\ pc' = "sponge_161"
            /\ UNCHANGED <<runs, run_stats, result>>
       \/ LoopFails("None", FALSE)
    /\ UNCHANGED <<args, call, poison_delta, ncalls>>

sponge_train_iterate ==
    /\ pc = "sponge_160"
    /\ \/ \E s \in StatValues :
            /\ log' = Append(log, LoopRun("sponge", FALSE, s))
            /\ victim' = iterate(victim, "sponge")
            /\ stats' = s
            /\ pc' = "sponge_161"
            /\ UNCHANGED <<runs, run_stats, result>>
       \/ LoopFails("sponge", FALSE)
    /\ UNCHANGED <<args, call, poison_delta, ncalls>>

\* mutant: the statistics are returned without saving the representation
sponge_train_no_save ==
    /\ pc = "sponge_161"
    /\ Return(stats)
    /\ UNCHANGED <<args, victim, call, poison_delta, log, runs, run_stats, stats, ncalls>>

sponge_train_save ==
    /\ pc = "sponge_161"
    /\ log' = Append(log, Hook("save_feature_representation"))
    /\ victim' = save_feature_representation(victim)
    /\ Return(stats)
    /\ UNCHANGED <<args, call, poison_delta, runs, run_stats, stats, ncalls>>

Next ==
    \/ Construct
    \/ CallTrain
    \/ CallRetrain
    \/ CallValidate
    \/ CallSpongeTrain
    \/ CallDistributedControl
    \/ CallSyncGradients
    \/ train_from_scratch_iterate
    \/ train_from_scratch_save
    \/ train_transfer_save
    \/ train_transfer_freeze
    \/ train_transfer_reinitialize
    \/ train_transfer_iterate
    \/ train_invalid
    \/ retrain_initialize
    \/ retrain_load
    \/ retrain_freeze
    \/ retrain_reinitialize
    \/ retrain_invalid
    \/ retrain_iterate
    \/ validate_initialize
    \/ validate_load
    \/ validate_freeze
    \/ validate_reinitialize
    \/ validate_invalid
    \/ validate_iterate
    \/ validate_average
    \/ sponge_train_iterate
    \/ sponge_train_save

Spec == Init /\ [][Next]_vars

TypeOK ==
    /\ args \in Args
    /\ ncalls \in 0..MaxCalls
    /\ runs \in 0..MaxVruns

\* ---- vocabulary of the properties ----
Supported == {"from-scratch", "transfer"}

Ops(l) == [i \in 1..Len(l) |-> l[i].op]

IsPrefix(p, q) == Len(p) <= Len(q) /\ \A i \in 1..Len(p) : p[i] = q[i]

Ended(name) == call = name /\ pc = "idle"

IsLoop(e) == e.op = "iterate"

Loops == SelectSeq(log, IsLoop)

InvalidScenario(name) ==
    Raised(CASE name = "train" -> "ValueError: Invalid train scenario."
             [] name = "retrain" -> "ValueError: Invalid retrain scenario"
             [] OTHER -> "ValueError: Invalid validation scenario")

CollaboratorFailed ==
    /\ result.kind = "error"
    /\ result.err \in {"StepError", "MissingRepresentationError"}

\* C1: in from-scratch, retrain re-initializes from the recorded seed, runs the
\* iteration loop exactly once with the caller's poison_delta and returns the
\* loop's statistics, without raising a scenario error.
C1_RetrainFromScratchCompletes ==
    (Ended("retrain") /\ args.scenario = "from-scratch") =>
        /\ result # InvalidScenario("retrain")
        /\ Ops(log) = <<"initialize", "iterate">>
        /\ log[2].poison_delta = poison_delta
        /\ log[2].ok => result = Returned(log[2].ret)

\* C2 as stated: in an unsupported scenario, for every validation run count,
\* train, retrain and validate end in the invalid-scenario error with no hook
\* invoked and the victim state unchanged.
C2_InvalidScenarioAnyRunCount ==
    \A name \in {"train", "retrain", "validate"} :
        (Ended(name) /\ args.scenario \notin Supported) =>
            /\ result = InvalidScenario(name)
            /\ log = <<>>

\* C2 amended: in an unsupported scenario train and retrain, and validate with a
\* run count >= 1, end in the invalid-scenario error with no hook invoked; with
\* run count 0 validate ends in the aggregation error instead; in every case no
\* step of the call changes the victim state.
C2_InvalidScenarioRaises ==
    /\ [](\A name \in {"train", "retrain", "validate"} :
            (Ended(name) /\ args.scenario \notin Supported) =>
                IF name = "validate" /\ args.vruns = 0
                THEN result = Raised("AggregationError") /\ Loops = <<>>
                ELSE result = InvalidScenario(name) /\ log = <<>>)
    /\ [][(args.scenario \notin Supported /\ call' \in {"train", "retrain", "validate"})
            => victim' = victim]_vars

C2_Witness ==
    /\ Ended("validate")
    /\ args.scenario \notin Supported
    /\ args.vruns >= 1
    /\ result = InvalidScenario("validate")

\* C3: with a supported scenario and run count K >= 1, validate runs the
\* iteration loop exactly K times, hands the K per-run statistics to the
\* aggregator in run order and returns, for every metric, the arithmetic mean
\* of the K per-run values (unless a collaborator fails first).
C3_ValidateAveragesKRuns ==
    (call = "validate" /\ args.scenario \in Supported /\ args.vruns >= 1) =>
        /\ Len(Loops) <= args.vruns
        /\ Ended("validate") =>
            \/ CollaboratorFailed
            \/ /\ result.kind = "ok"
               /\ Len(Loops) = args.vruns
               /\ \A i \in 1..Len(Loops) : Loops[i].ok
               /\ log[Len(log)] = [op |-> "average_dicts",
                                   arg |-> [i \in 1..Len(Loops) |-> Loops[i].ret]]
               /\ \A m \in Metrics :
                    /\ result.stats[m].den > 0
                    /\ result.stats[m].num * args.vruns
                         = SumOf(log[Len(log)].arg, m) * result.stats[m].den

C3_Witness ==
    /\ Ended("validate")
    /\ args.vruns >= 2
    /\ result.kind = "ok"
    /\ \E m \in Metrics : Loops[1].ret[m] # Loops[2].ret[m]

\* C4: construction succeeds, invoking initialize exactly once, if and only if
\* the number of model identifiers is <= the ensemble size; otherwise it fails
\* with the configuration error before initialize, and no victim state exists.
C4_ConstructionChecksEnsemble ==
    pc # "new" =>
        /\ pc # "failed" <=> Len(args.net) <= args.ensemble
        /\ pc = "failed" =>
            /\ result = Raised("ValueError: More models requested than ensemble size.")
            /\ log = <<>>
            /\ ~victim.created
        /\ Ended("__init__") =>
            /\ Ops(log) = <<"initialize">>
            /\ victim.created

C4_Witness ==
    /\ Ended("__init__")
    /\ Len(args.net) = args.ensemble
    /\ victim.created

\* C5: in transfer, train calls save_feature_representation, then
\* freeze_feature_extractor, then reinitialize_last_layer with the recorded seed
\* and keep_last_layer=true, then one iteration loop without poison; initialize
\* is never called.
C5_TrainTransferSequence ==
    (call = "train" /\ args.scenario = "transfer") =>
        /\ IsPrefix(Ops(log), <<"save_feature_representation", "freeze_feature_extractor",
                                "reinitialize_last_layer", "iterate">>)
        /\ Len(log) >= 3 => log[3] = ReHead(victim.model_init_seed)
        /\ Len(log) >= 4 => log[4].poison_delta = "None"
        /\ pc = "idle" => Len(log) = 4
        /\ result.kind = "ok" => log[4].ok /\ result = Returned(log[4].ret)

C5_Witness ==
    /\ Ended("train")
    /\ args.scenario = "transfer"
    /\ result.kind = "ok"

\* C6: in from-scratch, train runs exactly one iteration loop without poison on
\* the current initialization and calls save_feature_representation exactly
\* once, after the loop has returned.
C6_TrainFromScratchSequence ==
    (call = "train" /\ args.scenario = "from-scratch") =>
        /\ IsPrefix(Ops(log), <<"iterate", "save_feature_representation">>)
        /\ Len(log) >= 1 => log[1].poison_delta = "None"
        /\ Len(log) >= 2 => log[1].ok
        /\ pc = "idle" =>
            \/ result.kind = "ok" /\ Len(log) = 2 /\ result = Returned(log[1].ret)
            \/ result = Raised("StepError") /\ Len(log) = 1 /\ ~log[1].ok

C6_Witness ==
    /\ Ended("train")
    /\ args.scenario = "from-scratch"
    /\ result.kind = "ok"

\* C7: in transfer, retrain calls load_feature_representation, then
\* freeze_feature_extractor, then reinitialize_last_layer with the recorded seed
\* and keep_last_layer=true, then one iteration loop with the caller's
\* poison_delta; initialize is never called.
C7_RetrainTransferSequence ==
    (call = "retrain" /\ args.scenario = "transfer") =>
        /\ IsPrefix(Ops(log), <<"load_feature_representation", "freeze_feature_extractor",
                                "reinitialize_last_layer", "iterate">>)
        /\ Len(log) >= 3 => log[3] = ReHead(victim.model_init_seed)
        /\ Len(log) >= 4 => log[4].poison_delta = poison_delta
        /\ pc = "idle" =>
            \/ result.kind = "ok" /\ Len(log) = 4 /\ result = Returned(log[4].ret)
            \/ result = Raised("StepError") /\ Len(log) = 4 /\ ~log[4].ok
            \/ result = Raised("MissingRepresentationError") /\ Len(log) = 1

C7_Witness ==
    /\ Ended("retrain")
    /\ args.scenario = "transfer"
    /\ result.kind = "ok"
    /\ log[4].poison_delta = "delta_b"

\* C8: a model built by initialize with pretrain=true while a pretrain dataset
\* is configured is built against the pretrain dataset; in every other case
\* against the main dataset.
C8_PretrainDatasetUsed ==
    (log # <<>> /\ log[Len(log)].op = "initialize") =>
        \A i \in 1..Len(victim.models) :
            victim.models[i].dataset =
                IF log[Len(log)].pretrain /\ args.pretrain_dataset # "None"
                THEN args.pretrain_dataset
                ELSE args.dataset

\* C9: for every scenario, sponge_train runs exactly one iteration loop with the
\* sponge sentinel, then calls save_feature_representation once and returns the
\* loop's statistics; it never raises a scenario error.
C9_SpongeTrainSequence ==
    call = "sponge_train" =>
        /\ IsPrefix(Ops(log), <<"iterate", "save_feature_representation">>)
        /\ Len(log) >= 1 => log[1].poison_delta = "sponge"
        /\ Len(log) >= 2 => log[1].ok
        /\ pc = "idle" =>
            \/ result.kind = "ok" /\ Len(log) = 2 /\ result = Returned(log[1].ret)
            \/ result = Raised("StepError") /\ Len(log) = 1 /\ ~log[1].ok

C9_Witness ==
    /\ Ended("sponge_train")
    /\ args.scenario \notin Supported
    /\ result.kind = "ok"

\* C10: in from-scratch, the seed retrain passes to initialize is the seed the
\* preceding initialize recorded, never another or an absent one, so the
\* weights retrain starts from are those of initialize with that seed.
C10_RetrainReusesRecordedSeed ==
    [][(pc = "retrain_126" /\ args.scenario = "from-scratch") =>
          /\ log' = <<[op |-> "initialize", seed |-> victim.model_init_seed,
                       pretrain |-> FALSE]>>
          /\ victim.model_init_seed # NoSeed
          /\ victim'.model_init_seed = victim.model_init_seed
          /\ victim'.body = Fresh(victim.model_init_seed)
          /\ victim'.head = Fresh(victim.model_init_seed)]_vars

C10_Witness ==
    /\ call = "retrain"
    /\ args.scenario = "from-scratch"
    /\ pc = "retrain_129"
    /\ Ops(log) = <<"initialize">>
    /\ victim.body = Fresh(victim.model_init_seed)

\* C11: distributed_control returns its four arguments unchanged and in order,
\* followed by a null random-generator handle, sync_gradients returns its
\* argument unchanged, and neither call changes the configuration or the
\* victim state.
C11_DistributedNoOps ==
    /\ [](Ended("distributed_control") =>
            /\ Len(result.stats) = 5
            /\ \A i \in 1..4 : result.stats[i] = log[1].argv[i]
            /\ result.stats[5] = "None")
    /\ [](Ended("sync_gradients") => result.stats = log[1].argv[1])
    /\ [][call' \in {"distributed_control", "sync_gradients"} =>
            /\ victim' = victim
            /\ args' = args
            /\ pc' = pc
            /\ ncalls' = ncalls]_vars

C11_Witness ==
    /\ Ended("distributed_control")
    /\ log[1].argv = <<"x1", "y0", "s0", "b0">>
    /\ result.stats = <<"x1", "y0", "s0", "b0", "None">>

\* C12: in validate every iteration loop is immediately preceded by its own
\* re-derivation: in from-scratch initialize without a seed, in transfer load,
\* freeze, re-head without a seed and keep_last_layer=true; so every run starts
\* from an untrained head and a body not trained by an earlier run, and
\* validate never passes the recorded seed.
C12_ValidateRederivesEachRun ==
    (call = "validate" /\ args.scenario \in Supported) =>
        /\ \A i \in 1..Len(log) :
            /\ log[i].op = "iterate" =>
                IF args.scenario = "from-scratch"
                THEN /\ i > 1
                     /\ log[i - 1] = [op |-> "initialize", seed |-> NoSeed,
                                      pretrain |-> FALSE]
                ELSE /\ i > 3
                     /\ log[i - 3] = Hook("load_feature_representation")
                     /\ log[i - 2] = Hook("freeze_feature_extractor")
                     /\ log[i - 1] = ReHead(NoSeed)
            /\ log[i].op \in {"initialize", "reinitialize_last_layer"} =>
                log[i].seed = NoSeed
        /\ pc = "validate_155" =>
            /\ victim.head.data = "untrained"
            /\ IF args.scenario = "from-scratch"
               THEN victim.body.data = "untrained" /\ ~victim.frozen
               ELSE victim.body = victim.saved[1] /\ victim.frozen

C12_Witness ==
    /\ Ended("validate")
    /\ args.scenario = "from-scratch"
    /\ result.kind = "ok"
    /\ Ops(log) = <<"initialize", "iterate", "initialize", "iterate", "average_dicts">>

\* C13 as stated: in retrain every scenario other than from-scratch, also an
\* unrecognized one, takes the transfer path (load, freeze, re-head, loop)
\* instead of raising.
C13_RetrainFallsIntoTransfer ==
    (Ended("retrain") /\ args.scenario # "from-scratch") =>
        /\ result # InvalidScenario("retrain")
        /\ log # <<>>
        /\ log[1] = Hook("load_feature_representation")

\* C13 amended: among the scenarios other than from-scratch only transfer takes
\* the transfer path; an unrecognized scenario ends retrain in the
\* invalid-scenario error with no load, freeze, re-head or loop.
C13_RetrainOnlyTransferLoads ==
    (call = "retrain" /\ args.scenario # "from-scratch") =>
        IF args.scenario = "transfer"
        THEN /\ result # InvalidScenario("retrain")
             /\ pc = "idle" => (log # <<>> /\ log[1] = Hook("load_feature_representation"))
        ELSE /\ log = <<>>
             /\ pc = "idle" => result = InvalidScenario("retrain")

C13_Witness ==
    /\ Ended("retrain")
    /\ args.scenario = "finetuning"
    /\ result = InvalidScenario("retrain")
    /\ log = <<>>

\* C14: in transfer, retrain or validate (K >= 1) with no representation saved
\* fails with the missing-representation error at its first step, before any
\* freeze, re-head or loop; after a successful train or sponge_train a
\* representation exists, stays, and later loads get past the load step.
C14_LoadNeedsSavedRepresentation ==
    /\ []((call \in {"retrain", "validate"} /\ args.scenario = "transfer" /\ log # <<>>
           /\ log[1].op = "load_feature_representation") =>
            IF victim.saved = <<>>
            THEN /\ log = <<Hook("load_feature_representation")>>
                 /\ result = Raised("MissingRepresentationError")
                 /\ pc = "idle"
            ELSE /\ result # Raised("MissingRepresentationError")
                 /\ Len(log) = 1 => pc \in {"retrain_131", "validate_149"})
    /\ []((call \in {"train", "sponge_train"} /\ pc = "idle" /\ result.kind = "ok") =>
            victim.saved # <<>>)
    /\ [][(victim.created /\ victim.saved # <<>>) => victim'.saved # <<>>]_vars

C14_Witness ==
    /\ Ended("validate")
    /\ args.scenario = "transfer"
    /\ victim.saved = <<>>
    /\ result = Raised("MissingRepresentationError")

C14_WitnessLoaded ==
    /\ call = "retrain"
    /\ args.scenario = "transfer"
    /\ pc = "retrain_131"
    /\ victim.saved # <<>>

\* C15: a failure inside the iteration loop leaves train, retrain, validate and
\* sponge_train at once: it is the last hook call of the entry point, so no
\* save follows, validate starts no further run and calls no aggregator, and
\* the caller sees the failure instead of statistics.
C15_LoopFailurePropagates ==
    \A i \in 1..Len(log) :
        (log[i].op = "iterate" /\ ~log[i].ok) =>
            /\ i = Len(log)
            /\ pc = "idle"
            /\ result = Raised("StepError")
            /\ call \in {"train", "retrain", "validate", "sponge_train"}

C15_Witness ==
    /\ Ended("validate")
    /\ result = Raised("StepError")
    /\ run_stats # <<>>
    /\ runs < args.vruns

\* C16: the pretraining_phase flag of an iteration loop is true exactly in train
\* with scenario from-scratch and a pretrain dataset configured; in train with
\* transfer and in every loop of retrain, validate and sponge_train it is false.
C16_PretrainingPhaseOnlyInCleanTrain ==
    \A i \in 1..Len(log) :
        log[i].op = "iterate" =>
            (log[i].pretraining_phase <=>
                (call = "train" /\ args.scenario = "from-scratch"
                 /\ args.pretrain_dataset # "None"))

C16_Witness ==
    /\ Ended("train")
    /\ args.scenario = "transfer"
    /\ args.pretrain_dataset # "None"
    /\ Len(log) = 4
    /\ ~log[4].pretraining_phase

\* C17 as stated: retrain and validate never save, and the saved representation
\* is always the one written by the most recent successful train or
\* sponge_train, so a call that ended in an error has written none.
C17_SavedOnlyBySuccessfulTraining ==
    /\ call \in {"retrain", "validate"} =>
        \A i \in 1..Len(log) : log[i].op # "save_feature_representation"
    /\ (pc = "idle" /\ result.kind = "error") =>
        \A i \in 1..Len(log) : log[i].op # "save_feature_representation"

\* C17 amended: retrain and validate never save; the saved representation is
\* the one written by the most recent train or sponge_train that reached its
\* save call (in transfer train saves before its loop, also when the loop then
\* fails), and it is never taken from a body trained under a poison
\* perturbation.
C17_SavedOnlyByTraining ==
    /\ [](call \in {"retrain", "validate"} =>
            \A i \in 1..Len(log) : log[i].op # "save_feature_representation")
    /\ []((/\ pc = "idle"
            /\ result.kind = "error"
            /\ \E i \in 1..Len(log) : log[i].op = "save_feature_representation") =>
               (call = "train" /\ args.scenario = "transfer"
                /\ result = Raised("StepError")))
    /\ []((victim.created /\ victim.saved # <<>>) =>
            victim.saved[1].data \notin PoisonDeltas)
    /\ [][(victim.created /\ victim'.saved # victim.saved) =>
            /\ call' \in {"train", "sponge_train"}
            /\ log'[Len(log')] = Hook("save_feature_representation")
            /\ victim'.saved = <<victim.body>>]_vars

C17_Witness ==
    /\ Ended("retrain")
    /\ args.scenario = "transfer"
    /\ result.kind = "ok"
    /\ victim.head.data \in PoisonDeltas
    /\ victim.saved # <<>>
    /\ victim.saved[1].data \notin PoisonDeltas

\* C18: with a validation run count of 0, validate checks no scenario, runs no
\* re-initialization and no loop in any scenario, hands the empty list to the
\* aggregator and ends in the aggregation error.
C18_ValidateZeroRuns ==
    /\ []((call = "validate" /\ args.vruns = 0) =>
            /\ Loops = <<>>
            /\ pc = "idle" =>
                /\ log = <<[op |-> "average_dicts", arg |-> <<>>]>>
                /\ result = Raised("AggregationError"))
    /\ [][(call' = "validate" /\ args.vruns = 0) => victim' = victim]_vars

C18_Witness ==
    /\ Ended("validate")
    /\ args.vruns = 0
    /\ args.scenario \notin Supported
    /\ result = Raised("AggregationError")
====
